---- MODULE Spec2Model ----
(***************************************************************************)
(* A model of the PCI configuration mechanism #1 emulation of propolis     *)
(* (src/src/pci.rs): the PciBus with its latched CONFIG_ADDRESS, its       *)
(* registry of functions and the mutex that guards both.                   *)
(*                                                                         *)
(* A u32 is kept as a record [hi, lo] of two 16-bit halves, because the    *)
(* model checker's integers are signed 32-bit and 0x80000000 does not fit. *)
(* A byte slice is a sequence of numbers in 0..255.  A panic is an outcome *)
(* of a call ("panic", with the place that panicked); a panic raised while *)
(* the MutexGuard is alive poisons the std::sync::Mutex, and every later   *)
(* `lock().unwrap()` on it panics.                                         *)
(***************************************************************************)
EXTENDS Integers, Sequences, FiniteSets, TLC

VARIABLES
    pio_cfg_addr,  \* PciBusState.pio_cfg_addr : u32
    devices,       \* PciBusState.devices : Vec<(PciBDF, PciDev)>
    poisoned,      \* the poison flag of PciBus.state : Mutex<PciBusState>
    written,       \* history: value of the latest 4-byte write at offset 0 to CONFIG_ADDRESS
    last,          \* history: the latest call on the bus and its outcome
    uart_state,    \* LpcUart.state : UartState {uart, irq_pin, auto_discard}
    uart_lock,     \* holder of the Mutex<UartState>: "free", "vcpu" or "host"
    pio,           \* the vCPU thread inside LpcUart::pio_rw: position and locals
    ulast,         \* history: the latest call on the LpcUart
    xhci_state,    \* PciXhci.state : XhciState {usb_cmd}
    xlast,         \* history: the latest access to the xHCI and its outcome
    bits,          \* a bit-field value under test: the input and what came out
    cpus,          \* the vCPU threads inside PciBus::pio_in / pio_out
    bus_lock       \* holder of the Mutex<PciBusState>: 0 when free, else the vCPU

\* the PCI bus
pciVars ==
    <<pio_cfg_addr, devices, poisoned, written, last>>

\* the LPC UART
uartVars ==
    <<uart_state, uart_lock, pio, ulast>>

\* the xHCI controller
xhciVars ==
    <<xhci_state, xlast>>

\* the vCPU threads on the PCI bus
smpVars ==
    <<cpus, bus_lock>>

vars ==
    <<pciVars, uartVars, xhciVars, bits, smpVars>>

\* what a step of one part of the machine leaves alone
notPci ==
    <<uartVars, xhciVars, bits, smpVars>>

notUart ==
    <<pciVars, xhciVars, bits, smpVars>>

notXhci ==
    <<pciVars, uartVars, bits, smpVars>>

notBits ==
    <<pciVars, uartVars, xhciVars, smpVars>>

\* ... by a step of a vCPU on the bus
notBus ==
    <<uartVars, xhciVars, bits>>

----------------------------------------------------------------------------
(* Program constants *)

PORT_PCI_CONFIG_ADDR ==
    3320

PORT_PCI_CONFIG_DATA ==
    3324

MASK_FUNC ==
    7

MASK_DEV ==
    15

MASK_BUS ==
    255

\* std::mem::size_of::<PciHeader>() of the packed struct
HeaderLen ==
    64

(* Bounds of the model *)

\* the largest number of functions registered on the bus
MaxDevs ==
    2

----------------------------------------------------------------------------
(* Machine arithmetic *)

U32(h, l) ==
    [hi |-> h, lo |-> l]

\* a & b on unsigned integers
RECURSIVE BitAnd(_, _)
BitAnd(a, b) ==
    IF a = 0 \/ b = 0
    THEN 0
    ELSE (a % 2) * (b % 2) + 2 * BitAnd(a \div 2, b \div 2)

\* !m on a u8
NotU8(m) ==
    255 - m

RECURSIVE Pow2(_)
Pow2(n) ==
    IF n = 0 THEN 1 ELSE 2 * Pow2(n - 1)

\* (addr >> n) as u8, for 0 <= n <= 16
ShrAsU8(addr, n) ==
    ((addr.lo \div Pow2(n)) + (addr.hi % 256) * Pow2(16 - n)) % 256

\* u32::from_le_bytes of a 4-byte array
from_le_bytes(b) ==
    U32(b[3] + 256 * b[4], b[1] + 256 * b[2])

\* u32::to_le_bytes
to_le_bytes(a) ==
    <<a.lo % 256, a.lo \div 256, a.hi % 256, a.hi \div 256>>

----------------------------------------------------------------------------
(* PciBDF, PciHeader, PciDev *)

NoBDF ==
    [bus |-> -1, dev |-> -1, func |-> -1]

\* PciBDF::new: the two assertions, then the triple
PciBDF_new(bus, dev, func) ==
    IF BitAnd(dev, NotU8(MASK_DEV)) # 0 \/ BitAnd(func, NotU8(MASK_FUNC)) # 0
    THEN [panic |-> TRUE, bdf |-> NoBDF]
    ELSE [panic |-> FALSE, bdf |-> [bus |-> bus, dev |-> dev, func |-> func]]

\* PciDev::new: the four given fields, the rest of the header defaulted to 0
PciDev_new(vendor_id, device_id, class, subclass) ==
    [vendor_id |-> vendor_id, device_id |-> device_id,
     class |-> class, subclass |-> subclass]

\* PciHeader::as_bytes: the packed struct's memory, little-endian fields
as_bytes(h) ==
    [i \in 1..HeaderLen |->
        CASE i = 1 -> h.vendor_id % 256
          [] i = 2 -> h.vendor_id \div 256
          [] i = 3 -> h.device_id % 256
          [] i = 4 -> h.device_id \div 256
          [] i = 10 -> h.class
          [] i = 11 -> h.subclass
          [] OTHER -> 0]

\* read_inval: every byte of the buffer becomes 0xff
read_inval(data) ==
    [i \in 1..Len(data) |-> 255]

\* PciDev::cfg_read: the assertion, the slice cfg[off..off + cfg.len()], and
\* copy_from_slice, which panics unless both slices have the same length
PciDev_cfg_read(dev, offset, data) ==
    LET cfg == as_bytes(dev)
        off == offset
    IN  IF ~(off + Len(data) < Len(cfg))
        THEN [panic |-> TRUE, site |-> "cfg_read:assert", data |-> data]
        ELSE IF off + Len(cfg) > Len(cfg)
        THEN [panic |-> TRUE, site |-> "cfg_read:slice", data |-> data]
        ELSE LET to_copy == SubSeq(cfg, off + 1, off + Len(cfg))
             IN  IF Len(data) # Len(to_copy)
                 THEN [panic |-> TRUE, site |-> "cfg_read:copy_from_slice", data |-> data]
                 ELSE [panic |-> FALSE, site |-> "", data |-> to_copy]

----------------------------------------------------------------------------
(* PciBusState *)

\* self.devices.iter().find(|(sbdf, _)| sbdf == bdf): index of the first match, 0 if none
find(devs, bdf) ==
    IF \E i \in 1..Len(devs) : devs[i].bdf = bdf
    THEN CHOOSE i \in 1..Len(devs) :
            /\ devs[i].bdf = bdf
            /\ \A j \in 1..(i - 1) : devs[j].bdf # bdf
    ELSE 0

\* PciBusState::cfg_read
PciBusState_cfg_read(bdf, offset, data) ==
    LET i == find(devices, bdf)
    IN  IF i # 0
        THEN LET r == PciDev_cfg_read(devices[i].dev, offset, data)
             IN  [panic |-> r.panic, site |-> r.site, data |-> r.data, fwd |-> i]
        ELSE [panic |-> FALSE, site |-> "", data |-> read_inval(data), fwd |-> 0]

\* PciBusState::register without its assertion: the push is unconditional
PciBusState_register_unchecked(bdf, dev) ==
    [panic |-> FALSE, devices |-> Append(devices, [bdf |-> bdf, dev |-> dev])]

\* PciBusState::register
PciBusState_register(bdf, dev) ==
    IF find(devices, bdf) # 0
    THEN [panic |-> TRUE, devices |-> devices]
    ELSE [panic |-> FALSE, devices |-> Append(devices, [bdf |-> bdf, dev |-> dev])]

\* cfg_addr_parse with the device taken at the width of its field in
\* CONFIG_ADDRESS, five bits
cfg_addr_parse_dev5(addr) ==
    IF BitAnd(addr.hi, 32768) = 0
    THEN [some |-> FALSE, panic |-> FALSE, bdf |-> NoBDF, off |-> 0]
    ELSE LET offset == BitAnd(addr.lo, 255)
             func   == BitAnd(ShrAsU8(addr, 8), MASK_FUNC)
             device == BitAnd(ShrAsU8(addr, 11), 2 * MASK_DEV + 1)
             bus    == BitAnd(ShrAsU8(addr, 16), MASK_BUS)
             b      == PciBDF_new(bus, device, func)
         IN  [some |-> ~b.panic, panic |-> b.panic, bdf |-> b.bdf, off |-> offset % 256]

\* cfg_addr_parse with the function taken one bit too low (addr >> 7)
cfg_addr_parse_shift7(addr) ==
    IF BitAnd(addr.hi, 32768) = 0
    THEN [some |-> FALSE, panic |-> FALSE, bdf |-> NoBDF, off |-> 0]
    ELSE LET offset == BitAnd(addr.lo, 255)
             func   == BitAnd(ShrAsU8(addr, 7), MASK_FUNC)
             device == BitAnd(ShrAsU8(addr, 11), MASK_DEV)
             bus    == BitAnd(ShrAsU8(addr, 16), MASK_BUS)
             b      == PciBDF_new(bus, device, func)
         IN  [some |-> ~b.panic, panic |-> b.panic, bdf |-> b.bdf, off |-> offset % 256]

\* cfg_addr_parse
cfg_addr_parse(addr) ==
    IF BitAnd(addr.hi, 32768) = 0
    THEN [some |-> FALSE, panic |-> FALSE, bdf |-> NoBDF, off |-> 0]
    ELSE LET offset == BitAnd(addr.lo, 255)
             func   == BitAnd(ShrAsU8(addr, 8), MASK_FUNC)
             device == BitAnd(ShrAsU8(addr, 11), MASK_DEV)
             bus    == BitAnd(ShrAsU8(addr, 16), MASK_BUS)
             b      == PciBDF_new(bus, device, func)
         IN  [some |-> ~b.panic, panic |-> b.panic, bdf |-> b.bdf, off |-> offset % 256]

----------------------------------------------------------------------------
(* PciBus: the three entry points, as outcomes over the current state *)

\* PciBus::register
PciBus_register(bdf, dev) ==
    IF poisoned
    THEN [result |-> "panic", site |-> "lock", devices |-> devices, poisoned |-> poisoned]
    ELSE LET r == PciBusState_register(bdf, dev)
         IN  IF r.panic
             THEN [result |-> "panic", site |-> "register:assert",
                   devices |-> devices, poisoned |-> TRUE]
             ELSE [result |-> "ok", site |-> "",
                   devices |-> r.devices, poisoned |-> poisoned]

\* pio_out with `&&` for `||` in its guard: an access that is 4 bytes wide or at
\* offset 0 goes on, and try_into().unwrap() panics on a slice that is not 4 bytes
pio_out_and_guard(port, off, data) ==
    IF off # 0 /\ Len(data) # 4
    THEN [result |-> "ok", site |-> "", addr |-> pio_cfg_addr, poisoned |-> poisoned]
    ELSE IF poisoned
    THEN [result |-> "panic", site |-> "lock", addr |-> pio_cfg_addr, poisoned |-> poisoned]
    ELSE IF port = PORT_PCI_CONFIG_ADDR /\ Len(data) # 4
    THEN [result |-> "panic", site |-> "pio_out:try_into",
          addr |-> pio_cfg_addr, poisoned |-> TRUE]
    ELSE IF port = PORT_PCI_CONFIG_ADDR
    THEN [result |-> "ok", site |-> "", addr |-> from_le_bytes(data), poisoned |-> poisoned]
    ELSE [result |-> "ok", site |-> "", addr |-> pio_cfg_addr, poisoned |-> poisoned]

\* pio_out without the match on the port: a write to CONFIG_DATA is latched too
pio_out_any_port(port, off, data) ==
    IF off # 0 \/ Len(data) # 4
    THEN [result |-> "ok", site |-> "", addr |-> pio_cfg_addr, poisoned |-> poisoned]
    ELSE IF poisoned
    THEN [result |-> "panic", site |-> "lock", addr |-> pio_cfg_addr, poisoned |-> poisoned]
    ELSE [result |-> "ok", site |-> "", addr |-> from_le_bytes(data), poisoned |-> poisoned]

\* <PciBus as InoutDev>::pio_out
pio_out(port, off, data) ==
    IF off # 0 \/ Len(data) # 4
    THEN [result |-> "ok", site |-> "", addr |-> pio_cfg_addr, poisoned |-> poisoned]
    ELSE IF poisoned
    THEN [result |-> "panic", site |-> "lock", addr |-> pio_cfg_addr, poisoned |-> poisoned]
    ELSE CASE port = PORT_PCI_CONFIG_ADDR ->
                [result |-> "ok", site |-> "",
                 addr |-> from_le_bytes(data), poisoned |-> poisoned]
           [] port = PORT_PCI_CONFIG_DATA ->
                [result |-> "ok", site |-> "", addr |-> pio_cfg_addr, poisoned |-> poisoned]
           [] OTHER ->
                [result |-> "panic", site |-> "pio_out:port",
                 addr |-> pio_cfg_addr, poisoned |-> TRUE]

\* <PciBus as InoutDev>::pio_in
pio_in(port, off, data) ==
    LET none == [some |-> FALSE, bdf |-> NoBDF, off |-> 0]
    IN
    IF off # 0
    THEN [result |-> "ok", site |-> "", data |-> read_inval(data),
          poisoned |-> poisoned, parsed |-> none, fwd |-> 0]
    ELSE IF poisoned
    THEN [result |-> "panic", site |-> "lock", data |-> data,
          poisoned |-> poisoned, parsed |-> none, fwd |-> 0]
    ELSE CASE port = PORT_PCI_CONFIG_ADDR ->
                LET buf == to_le_bytes(pio_cfg_addr)
                IN  IF Len(data) # Len(buf)
                    THEN [result |-> "panic", site |-> "pio_in:copy_from_slice", data |-> data,
                          poisoned |-> TRUE, parsed |-> none, fwd |-> 0]
                    ELSE [result |-> "ok", site |-> "", data |-> buf,
                          poisoned |-> poisoned, parsed |-> none, fwd |-> 0]
           [] port = PORT_PCI_CONFIG_DATA ->
                LET p == cfg_addr_parse(pio_cfg_addr)
                    d == [some |-> p.some, bdf |-> p.bdf, off |-> p.off]
                IN  IF p.panic
                    THEN [result |-> "panic", site |-> "PciBDF::new", data |-> data,
                          poisoned |-> TRUE, parsed |-> d, fwd |-> 0]
                    ELSE IF p.some
                    THEN LET r == PciBusState_cfg_read(p.bdf, p.off, data)
                         IN  IF r.panic
                             THEN [result |-> "panic", site |-> r.site, data |-> r.data,
                                   poisoned |-> TRUE, parsed |-> d, fwd |-> r.fwd]
                             ELSE [result |-> "ok", site |-> "", data |-> read_inval(r.data),
                                   poisoned |-> poisoned, parsed |-> d, fwd |-> r.fwd]
                    ELSE [result |-> "ok", site |-> "", data |-> read_inval(data),
                          poisoned |-> poisoned, parsed |-> d, fwd |-> 0]
           [] OTHER ->
                [result |-> "panic", site |-> "pio_in:port", data |-> data,
                 poisoned |-> TRUE, parsed |-> none, fwd |-> 0]

----------------------------------------------------------------------------
(* Inputs *)

\* the two ports the bus is attached to
Ports ==
    {PORT_PCI_CONFIG_ADDR, PORT_PCI_CONFIG_DATA}

\* offsets of an access inside a 4-byte port
Offsets ==
    0..3

\* the functions device construction registers: (bus, device, function) handed to
\* PciBDF::new, and the PciDev.  The first two compete for 0:1.0; the last two do
\* not fit the 4-bit device and the 3-bit function
RegArgs ==
    {<<<<0, 1, 0>>, PciDev_new(32902, 4663, 6, 0)>>,
     <<<<0, 1, 0>>, PciDev_new(6900, 4096, 2, 0)>>,
     <<<<0, 2, 2>>, PciDev_new(6900, 4096, 2, 0)>>,
     <<<<1, 1, 0>>, PciDev_new(32902, 4663, 6, 0)>>,
     <<<<0, 17, 0>>, PciDev_new(32902, 4663, 6, 0)>>,
     <<<<0, 1, 8>>, PciDev_new(32902, 4663, 6, 0)>>}

\* guest data of a 4-byte write: 0x80000800 (0:1.0 offset 0), 0x80008800 (device
\* field 17), 0x80001234 (0:2.2 offset 0x34), 0x7fffffff (enable bit clear, every
\* other bit set), 0xffffffff (bus 255, device field 31, function 7, offset 0xff)
WriteData4 ==
    {<<0, 8, 0, 128>>, <<0, 136, 0, 128>>, <<52, 18, 0, 128>>,
     <<255, 255, 255, 127>>, <<255, 255, 255, 255>>}

\* guest data of a write: 1, 2 or 4 bytes
WriteData ==
    WriteData4 \cup {<<18>>, <<52, 18>>}

\* destination buffers of a read: 1, 2 or 4 bytes, not yet populated
ReadBufs ==
    {<<0>>, <<0, 0>>, <<0, 0, 0, 0>>}

NoCall ==
    [op |-> "none", port |-> 0, off |-> 0, len |-> 0, out |-> <<>>,
     result |-> "ok", site |-> "",
     parsed |-> [some |-> FALSE, bdf |-> NoBDF, off |-> 0], fwd |-> 0,
     arg |-> <<>>]

----------------------------------------------------------------------------
(* The state machine *)

\* PciBus::new
Init ==
    /\ pio_cfg_addr = U32(0, 0)
    /\ devices = <<>>
    /\ poisoned = FALSE
    /\ written = U32(0, 0)
    /\ last = NoCall

\* bus.register(PciBDF::new(bus, dev, func), pcidev)
Register ==
    /\ UNCHANGED notPci
    /\ \E ra \in RegArgs :
        \E b \in {PciBDF_new(ra[1][1], ra[1][2], ra[1][3])} :
            LET call == [NoCall EXCEPT !.op = "register", !.arg = ra[1]]
            IN  IF b.panic
                THEN /\ last' = [call EXCEPT !.result = "panic", !.site = "PciBDF::new"]
                     /\ UNCHANGED <<pio_cfg_addr, devices, poisoned, written>>
                ELSE \E r \in {PciBus_register(b.bdf, ra[2])} :
                        /\ Len(r.devices) <= MaxDevs
                        /\ devices' = r.devices
                        /\ poisoned' = r.poisoned
                        /\ last' = [call EXCEPT !.result = r.result, !.site = r.site]
                        /\ UNCHANGED <<pio_cfg_addr, written>>

\* bus.pio_out(port, off, data)
PioOut ==
    /\ UNCHANGED notPci
    /\ \E port \in Ports, off \in Offsets, data \in WriteData :
        \E r \in {pio_out(port, off, data)} :
            /\ pio_cfg_addr' = r.addr
            /\ poisoned' = r.poisoned
            /\ written' = IF port = PORT_PCI_CONFIG_ADDR /\ off = 0 /\ Len(data) = 4
                          THEN from_le_bytes(data) ELSE written
            /\ last' = [NoCall EXCEPT !.op = "pio_out", !.port = port, !.off = off,
                            !.len = Len(data),
                            !.result = r.result, !.site = r.site]
            /\ UNCHANGED devices

\* bus.pio_in(port, off, data)
PioIn ==
    /\ UNCHANGED notPci
    /\ \E port \in Ports, off \in Offsets, data \in ReadBufs :
        \E r \in {pio_in(port, off, data)} :
            /\ poisoned' = r.poisoned
            /\ last' = [NoCall EXCEPT !.op = "pio_in", !.port = port, !.off = off,
                            !.len = Len(data), !.out = r.data,
                            !.result = r.result, !.site = r.site,
                            !.parsed = r.parsed, !.fwd = r.fwd]
            /\ UNCHANGED <<pio_cfg_addr, devices, written>>

Next ==
    \/ Register
    \/ PioOut
    \/ PioIn

\* Device construction that succeeds: only registrations that return.
RegisterNew ==
    Register /\ last'.result = "ok"

\* The bus as the guest sees it: every function was registered without a
\* failure, and the guest's port accesses come in any order.
NextGuest ==
    \/ RegisterNew
    \/ PioOut
    \/ PioIn

----------------------------------------------------------------------------
(* Vocabulary of the properties: the fields of a CONFIG_ADDRESS value as the *)
(* PCI configuration mechanism #1 lays them out, read off the two halves by  *)
(* division, and the calls the history variable `last` records.              *)

\* bit 31
AddrEnabled(a) ==
    a.hi >= 32768

\* bits[23:16], bits[15:11] (all five), bits[10:8]
AddrBus(a) ==
    a.hi % 256

AddrDevice5(a) ==
    (a.lo \div 2048) % 32

AddrFunction(a) ==
    (a.lo \div 256) % 8

\* bits[7:0]
AddrOffset(a) ==
    a.lo % 256

\* the registry holds a function at (bus, dev, func)
Registered(bus, dev, func) ==
    \E i \in 1..Len(devices) :
        devices[i].bdf = [bus |-> bus, dev |-> dev, func |-> func]

\* the latched address is disabled or names a BDF the registry does not hold
NamesNoFunction ==
    \/ ~AddrEnabled(pio_cfg_addr)
    \/ ~Registered(AddrBus(pio_cfg_addr), AddrDevice5(pio_cfg_addr),
                   AddrFunction(pio_cfg_addr))

LastIsRead(port) ==
    last.op = "pio_in" /\ last.port = port

LastIsWrite(port) ==
    last.op = "pio_out" /\ last.port = port

\* no two entries of the registry have the same (bus, device, function)
RegistryUnique ==
    \A i, j \in 1..Len(devices) : devices[i].bdf = devices[j].bdf => i = j

----------------------------------------------------------------------------
(* The claims *)

\* C1: a 4-byte read of CONFIG_ADDRESS at offset 0 returns, little-endian, the
\* 32-bit value of the most recent 4-byte write at offset 0 to CONFIG_ADDRESS
\* (0 if there has been none), after any sequence of port accesses.
C1_AddrReadReturnsLatestWrite ==
    (LastIsRead(PORT_PCI_CONFIG_ADDR) /\ last.off = 0 /\ last.len = 4)
        => /\ last.result = "ok"
           /\ Len(last.out) = 4
           /\ last.out[1] + 256 * last.out[2] = written.lo
           /\ last.out[3] + 256 * last.out[4] = written.hi

\* C2: a write to CONFIG_ADDRESS that is not exactly 4 bytes at offset 0 leaves
\* the latched address and the registry as they were.
C2_MisalignedAddrWriteIsNoOp ==
    [][(/\ last'.op = "pio_out"
        /\ last'.port = PORT_PCI_CONFIG_ADDR
        /\ ~(last'.off = 0 /\ last'.len = 4))
            => (pio_cfg_addr' = pio_cfg_addr /\ devices' = devices)]_vars

\* C2 witness: a 2-byte write at offset 0 to CONFIG_ADDRESS has returned on a
\* bus with a latched non-zero address and a registered function.
C2_Witness ==
    /\ LastIsWrite(PORT_PCI_CONFIG_ADDR)
    /\ last.off = 0
    /\ last.len = 2
    /\ last.result = "ok"
    /\ pio_cfg_addr # U32(0, 0)
    /\ Len(devices) > 0

\* C3: decoding the latched value during a CONFIG_DATA read: bit 31 clear gives
\* "disabled" whatever the other bits are; bit 31 set gives bus = bits[23:16],
\* the device taken from bits[15:11] (their low four), function = bits[10:8]
\* and offset = bits[7:0]; 0x80001234 gives bus 0, function 2, offset 0x34.
C3_AddrDecode ==
    (LastIsRead(PORT_PCI_CONFIG_DATA) /\ last.off = 0 /\ last.site # "lock")
        => LET a == pio_cfg_addr
               p == last.parsed
           IN  /\ ~AddrEnabled(a) => ~p.some
               /\ AddrEnabled(a) =>
                    /\ p.some
                    /\ p.bdf.bus = AddrBus(a)
                    /\ p.bdf.dev = AddrDevice5(a) % 16
                    /\ p.bdf.func = AddrFunction(a)
                    /\ p.off = AddrOffset(a)
               /\ a = U32(32768, 4660) =>
                    /\ p.some
                    /\ p.bdf = [bus |-> 0, dev |-> 2, func |-> 2]
                    /\ p.off = 52

\* C3 witness: a CONFIG_DATA read has decoded the latched 0x80001234.
C3_Witness ==
    /\ LastIsRead(PORT_PCI_CONFIG_DATA)
    /\ last.off = 0
    /\ last.site # "lock"
    /\ pio_cfg_addr = U32(32768, 4660)
    /\ last.parsed.some

\* C4: a CONFIG_DATA read while the latched address is disabled or names a BDF
\* that is not in the registry fills every byte of the buffer with 0xFF (and
\* leaves the latched address and the registry unchanged).
C4_UnmappedReadIsAllOnes ==
    (LastIsRead(PORT_PCI_CONFIG_DATA) /\ NamesNoFunction)
        => /\ last.result = "ok"
           /\ Len(last.out) = last.len
           /\ \A i \in 1..Len(last.out) : last.out[i] = 255

\* C5: a CONFIG_DATA read while the latched address is enabled and names a
\* registered BDF is forwarded to that function, and the guest receives the
\* function's configuration bytes at [offset, offset + len).
C5_MappedReadReturnsConfigBytes ==
    (LastIsRead(PORT_PCI_CONFIG_DATA) /\ last.off = 0 /\ ~NamesNoFunction)
        => LET a == pio_cfg_addr
               i == find(devices, [bus |-> AddrBus(a), dev |-> AddrDevice5(a),
                                   func |-> AddrFunction(a)])
               cfg == as_bytes(devices[i].dev)
               n == last.len
           IN  /\ last.result = "ok"
               /\ last.fwd = i
               /\ Len(last.out) = n
               /\ \A k \in 1..n :
                    AddrOffset(a) + k <= Len(cfg) => last.out[k] = cfg[AddrOffset(a) + k]

\* C6: after a registration at an occupied BDF has failed, the registry still
\* holds exactly one registration for that BDF, and later uses of the bus (a
\* CONFIG_DATA access, a CONFIG_ADDRESS access, a registration at a free BDF)
\* still succeed.
C6_DuplicateLeavesBusUsable ==
    (last.op = "register" /\ last.site = "register:assert")
        => /\ RegistryUnique
           /\ Registered(last.arg[1], last.arg[2], last.arg[3])
           /\ pio_in(PORT_PCI_CONFIG_DATA, 0, <<0, 0, 0, 0>>).site # "lock"
           /\ pio_in(PORT_PCI_CONFIG_ADDR, 0, <<0, 0, 0, 0>>).result = "ok"
           /\ pio_out(PORT_PCI_CONFIG_ADDR, 0, <<0, 8, 0, 128>>).result = "ok"
           /\ \A ra \in RegArgs :
                (/\ ~PciBDF_new(ra[1][1], ra[1][2], ra[1][3]).panic
                 /\ ~Registered(ra[1][1], ra[1][2], ra[1][3]))
                    => PciBus_register(PciBDF_new(ra[1][1], ra[1][2], ra[1][3]).bdf,
                                       ra[2]).result = "ok"

\* C7: in every reachable state the registry holds at most one function per
\* (bus, device, function).
C7_AtMostOneFunctionPerBDF ==
    RegistryUnique

\* C7 witness: the registry is full and a registration at an occupied BDF has
\* just been refused.
C7_Witness ==
    /\ Len(devices) = MaxDevs
    /\ last.op = "register"
    /\ last.site = "register:assert"

\* C8: a read or write of CONFIG_ADDRESS or CONFIG_DATA with any offset in 0..3
\* and any size in {1, 2, 4} completes without aborting, whatever is latched and
\* registered.
C8_PortAccessNeverAborts ==
    last.op \in {"pio_in", "pio_out"} => last.result = "ok"

\* C9: a write to CONFIG_DATA while the latched address is disabled or names an
\* unregistered BDF changes neither the latched address, nor the registry, nor
\* the configuration bytes of any registered function (the bytes of a function
\* are those of the header its registry entry holds).
C9_UnmappedDataWriteIsDropped ==
    [][(/\ last'.op = "pio_out"
        /\ last'.port = PORT_PCI_CONFIG_DATA
        /\ NamesNoFunction)
            => /\ pio_cfg_addr' = pio_cfg_addr
               /\ Len(devices') = Len(devices)
               /\ \A i \in 1..Len(devices) :
                    /\ devices'[i].bdf = devices[i].bdf
                    /\ devices'[i].dev = devices[i].dev]_vars

\* C9 witness: a 4-byte write at offset 0 to CONFIG_DATA has returned while the
\* latched address was enabled and named a BDF without a function, on a bus
\* with a registered function.
C9_Witness ==
    /\ LastIsWrite(PORT_PCI_CONFIG_DATA)
    /\ last.off = 0
    /\ last.len = 4
    /\ last.result = "ok"
    /\ AddrEnabled(pio_cfg_addr)
    /\ NamesNoFunction
    /\ Len(devices) > 0

\* C10: when the latched address is enabled and its 5-bit device field has bit
\* 4 set, a CONFIG_DATA access never resolves to the function registered at
\* the device number formed by the low 4 bits.
C10_DeviceAbove15NotAliased ==
    (/\ LastIsRead(PORT_PCI_CONFIG_DATA)
     /\ AddrEnabled(pio_cfg_addr)
     /\ AddrDevice5(pio_cfg_addr) >= 16)
        => ~(/\ last.fwd # 0
             /\ devices[last.fwd].bdf.dev = AddrDevice5(pio_cfg_addr) % 16)

----------------------------------------------------------------------------
(* The LPC UART (src/propolis/src/hw/uart/lpc.rs)                           *)
(*                                                                          *)
(* LpcUart wraps the 16550 register file (super::base::Uart) in a mutex,    *)
(* keeps the legacy interrupt pin in step with it, and tells the attached   *)
(* character-device consumer when the device becomes readable or writable.  *)
(* The register file itself is a collaborator: it is kept as two bounded    *)
(* queues (tx: guest to host, rx: host to guest) and the interrupt enable   *)
(* bits, which is all that is_readable, is_writable and intr_state look at. *)

REGISTER_LEN ==
    8

\* depth of each queue of the register file
FifoDepth ==
    1

\* Uart::new
Uart_new ==
    [tx |-> 0, rx |-> 0, ier |-> 0]

\* Uart::is_readable: the guest has transmitted a byte the host has not taken
is_readable(u) ==
    u.tx > 0

\* Uart::is_writable: there is room for a byte from the host
is_writable(u) ==
    u.rx < FifoDepth

\* Uart::intr_state: received data available, or transmitter empty, if enabled
intr_state(u) ==
    \/ u.ier % 2 = 1 /\ u.rx > 0
    \/ (u.ier \div 2) % 2 = 1 /\ u.tx = 0

\* Uart::reg_read: offset 0 is the receive buffer, the rest only report
uart_reg_read(u, offset) ==
    [uart |-> IF offset = 0 /\ u.rx > 0 THEN [u EXCEPT !.rx = @ - 1] ELSE u,
     val |-> 0]

\* Uart::reg_write: offset 0 is the transmit holding register, 1 the
\* interrupt enable register
uart_reg_write(u, offset, val) ==
    IF offset = 0
    THEN [u EXCEPT !.tx = IF @ < FifoDepth THEN @ + 1 ELSE @]
    ELSE IF offset = 1
         THEN [u EXCEPT !.ier = val % 4]
         ELSE u

\* Uart::data_read: the host takes a transmitted byte, if there is one
data_read(u) ==
    [some |-> u.tx > 0,
     uart |-> IF u.tx > 0 THEN [u EXCEPT !.tx = @ - 1] ELSE u]

\* Uart::data_write: the host hands a byte to the guest, if there is room
data_write(u) ==
    [res |-> u.rx < FifoDepth,
     uart |-> IF u.rx < FifoDepth THEN [u EXCEPT !.rx = @ + 1] ELSE u]

\* Uart::reset
uart_reset(u) ==
    Uart_new

\* UartState::sync_intr_pin without effect
sync_intr_pin_skip(st) ==
    st

\* UartState::sync_intr_pin
sync_intr_pin(st) ==
    [st EXCEPT !.irq_pin = intr_state(st.uart)]

\* LpcUart::new
LpcUart_new ==
    [uart |-> Uart_new, irq_pin |-> FALSE, auto_discard |-> TRUE]

\* LpcUart::reset, between lock and release
LpcUart_reset(st) ==
    sync_intr_pin([st EXCEPT !.uart = uart_reset(st.uart)])

\* <LpcUart as Sink>::write, between lock and release
Sink_write(st) ==
    LET r == data_write(st.uart)
    IN  [state |-> sync_intr_pin([st EXCEPT !.uart = r.uart]), res |-> r.res]

\* <LpcUart as Source>::read, between lock and release
Source_read(st) ==
    LET r == data_read(st.uart)
    IN  [state |-> sync_intr_pin([st EXCEPT !.uart = r.uart]), res |-> r.some]

\* the loop of Source::discard: take bytes until `count` are gone or none is left
RECURSIVE discard_loop(_, _, _)
discard_loop(u, discarded, count) ==
    IF discarded < count /\ data_read(u).some
    THEN discard_loop(data_read(u).uart, discarded + 1, count)
    ELSE [uart |-> u, discarded |-> discarded]

\* <LpcUart as Source>::discard, between lock and release
Source_discard(st, count) ==
    LET r == discard_loop(st.uart, 0, count)
    IN  [state |-> sync_intr_pin([st EXCEPT !.uart = r.uart]), res |-> r.discarded]

\* <LpcUart as Source>::set_autodiscard, between lock and release
set_autodiscard(st, active) ==
    [st EXCEPT !.auto_discard = active]

\* `while let Some(_val) = state.uart.data_read() {}`
RECURSIVE drain(_)
drain(u) ==
    IF data_read(u).some THEN drain(data_read(u).uart) ELSE u

\* the body of LpcUart::pio_rw with a level-triggered readable notification
\*
pio_rw_body_level(st, rwo) ==
    LET u1 == IF rwo.kind = "Read"
              THEN uart_reg_read(st.uart, rwo.offset).uart
              ELSE uart_reg_write(st.uart, rwo.offset, rwo.val)
        u2 == IF st.auto_discard THEN drain(u1) ELSE u1
    IN  [state |-> sync_intr_pin([st EXCEPT !.uart = u2]),
         read_notify |-> is_readable(u2),
         write_notify |-> ~is_writable(st.uart) /\ is_writable(u2)]

\* the body of LpcUart::pio_rw, between lock and release: the register
\* access, the drain under auto-discard, the pin, and the two decisions
pio_rw_body(st, rwo) ==
    LET readable_before == is_readable(st.uart)
        writable_before == is_writable(st.uart)
        u1 == IF rwo.kind = "Read"
              THEN uart_reg_read(st.uart, rwo.offset).uart
              ELSE uart_reg_write(st.uart, rwo.offset, rwo.val)
        u2 == IF st.auto_discard THEN drain(u1) ELSE u1
    IN  [state |-> sync_intr_pin([st EXCEPT !.uart = u2]),
         read_notify |-> ~readable_before /\ is_readable(u2),
         write_notify |-> ~writable_before /\ is_writable(u2)]

\* the statements of LpcUart::pio_rw with the guard dropped last
\*
pio_rw_order_drop_last ==
    <<"body", "notify_readable", "notify_writable", "drop">>

\* the statements of LpcUart::pio_rw after the two asserts, in program order
pio_rw_order ==
    <<"body", "drop", "notify_readable", "notify_writable">>

\* guest accesses to the eight registers: one byte, read or written
PioOps ==
    [kind : {"Read"}, offset : 0 .. REGISTER_LEN - 1, val : {0}]
        \cup [kind : {"Write"}, offset : 0 .. REGISTER_LEN - 1, val : 0 .. 3]

\* what a consumer does with the device, from its own thread or from inside
\* a notification
ConsumerOps ==
    {"Sink::write", "Source::read", "Source::discard",
     "Source::set_autodiscard(true)", "Source::set_autodiscard(false)"}

\* the effect of a consumer operation, between lock and release
consumer_op(st, op) ==
    IF op = "Sink::write" THEN Sink_write(st).state
    ELSE IF op = "Source::read" THEN Source_read(st).state
    ELSE IF op = "Source::discard" THEN Source_discard(st, 1).state
    ELSE IF op = "Source::set_autodiscard(true)" THEN set_autodiscard(st, TRUE)
    ELSE set_autodiscard(st, FALSE)

PioIdle ==
    [pc |-> 0, read_notify |-> FALSE, write_notify |-> FALSE,
     rb |-> FALSE, wb |-> FALSE, ra |-> FALSE, wa |-> FALSE,
     nr |-> 0, nw |-> 0, done |-> FALSE, stuck |-> FALSE]

NoUartCall ==
    [op |-> "none", ctx |-> "none"]

\* LpcUart::new, with both notifiers attached
InitUart ==
    /\ uart_state = LpcUart_new
    /\ uart_lock = "free"
    /\ pio = PioIdle
    /\ ulast = NoUartCall

\* the position after the statement at pio.pc; 0 once pio_rw has returned
PioAdvance(p) ==
    [p EXCEPT !.pc = IF @ = Len(pio_rw_order) THEN 0 ELSE @ + 1,
              !.done = (p.pc = Len(pio_rw_order))]

\* the statement the vCPU thread is about to execute
PioAt(stmt) ==
    /\ pio.pc > 0
    /\ ~pio.stuck
    /\ pio_rw_order[pio.pc] = stmt

\* pio_rw is entered: asserts, lock, and the body up to the two decisions
PioRwBody ==
    /\ pio.pc = 0
    /\ uart_lock = "free"
    /\ pio_rw_order[1] = "body"
    /\ \E rwo \in PioOps :
        /\ rwo.offset < REGISTER_LEN
        /\ \E r \in {pio_rw_body(uart_state, rwo)} :
            /\ uart_state' = r.state
            /\ pio' = [PioIdle EXCEPT !.pc = 2,
                           !.read_notify = r.read_notify,
                           !.write_notify = r.write_notify,
                           !.rb = is_readable(uart_state.uart),
                           !.wb = is_writable(uart_state.uart)]
            /\ ulast' = [op |-> "pio_rw", ctx |-> rwo.kind]
    /\ uart_lock' = "vcpu"
    /\ UNCHANGED notUart

\* drop(state)
PioRwDrop ==
    /\ PioAt("drop")
    /\ uart_lock' = "free"
    /\ pio' = [PioAdvance(pio) EXCEPT !.ra = is_readable(uart_state.uart),
                                      !.wa = is_writable(uart_state.uart)]
    /\ ulast' = [op |-> "drop", ctx |-> "pio_rw"]
    /\ UNCHANGED <<uart_state, notUart>>

\* a notifier runs on the vCPU thread and re-enters the device, or does not
Callback(count) ==
    \/ /\ pio' = PioAdvance(count)
       /\ ulast' = [op |-> "none", ctx |-> "callback"]
       /\ UNCHANGED uart_state
    \/ \E op \in ConsumerOps :
        IF uart_lock = "free"
        THEN /\ uart_state' = consumer_op(uart_state, op)
             /\ pio' = PioAdvance(count)
             /\ ulast' = [op |-> op, ctx |-> "callback"]
        ELSE /\ pio' = [count EXCEPT !.stuck = TRUE]
             /\ ulast' = [op |-> op, ctx |-> "blocked"]
             /\ UNCHANGED uart_state

\* if read_notify { self.notify_readable.notify(self) }
PioRwNotifyReadable ==
    /\ PioAt("notify_readable")
    /\ IF pio.read_notify
       THEN Callback([pio EXCEPT !.nr = @ + 1])
       ELSE /\ pio' = PioAdvance(pio)
            /\ ulast' = [op |-> "skip", ctx |-> "notify_readable"]
            /\ UNCHANGED uart_state
    /\ UNCHANGED <<uart_lock, notUart>>

\* if write_notify { self.notify_writable.notify(self) }
PioRwNotifyWritable ==
    /\ PioAt("notify_writable")
    /\ IF pio.write_notify
       THEN Callback([pio EXCEPT !.nw = @ + 1])
       ELSE /\ pio' = PioAdvance(pio)
            /\ ulast' = [op |-> "skip", ctx |-> "notify_writable"]
            /\ UNCHANGED uart_state
    /\ UNCHANGED <<uart_lock, notUart>>

\* the consumer's thread calls into the device: lock, effect, release
HostCall ==
    /\ uart_lock = "free"
    /\ \E op \in ConsumerOps :
        /\ uart_state' = consumer_op(uart_state, op)
        /\ ulast' = [op |-> op, ctx |-> "host"]
    /\ UNCHANGED <<uart_lock, pio, notUart>>

\* Entity::state_transition(Reset): LpcUart::reset
HostReset ==
    /\ uart_lock = "free"
    /\ uart_state' = LpcUart_reset(uart_state)
    /\ ulast' = [op |-> "reset", ctx |-> "host"]
    /\ UNCHANGED <<uart_lock, pio, notUart>>

NextUart ==
    \/ PioRwBody
    \/ PioRwDrop
    \/ PioRwNotifyReadable
    \/ PioRwNotifyWritable
    \/ HostCall
    \/ HostReset

\* C11: LpcUart::pio_rw has released the state lock before either notifier
\* runs, so a notifier that calls Source::read, Source::discard, Sink::write
\* or Source::set_autodiscard on the same thread gets the lock and returns:
\* the vCPU thread is never stuck waiting for a lock it holds itself.
C11_NotifyOutsideLock ==
    /\ ~pio.stuck
    /\ ulast.ctx # "blocked"
    /\ \A i \in 1 .. Len(pio_rw_order) :
        pio.pc = i /\ pio_rw_order[i] \in {"notify_readable", "notify_writable"}
            => uart_lock = "free"

\* a notifier has re-entered the device through Source::read and returned
C11_Witness ==
    /\ ulast.ctx = "callback"
    /\ ulast.op = "Source::read"
    /\ pio.nr = 1

\* C19: the notifications of pio_rw are edge-triggered.  An access invokes
\* the readable notifier iff the device was not readable when the lock was
\* taken and is readable when it is released (after the register access and
\* the auto-discard drain), the writable notifier likewise, and each at most
\* once.
C19_EdgeTriggeredNotify ==
    /\ pio.nr <= 1
    /\ pio.nw <= 1
    /\ pio.done =>
        /\ pio.nr = 1 <=> (~pio.rb /\ pio.ra)
        /\ pio.nw = 1 <=> (~pio.wb /\ pio.wa)

\* an access that made the device readable has returned, its notifier invoked
C19_Witness ==
    /\ pio.done
    /\ pio.nr = 1
    /\ ~pio.rb
    /\ pio.ra

\* C20: whenever the lock is free after pio_rw, Sink::write, Source::read,
\* Source::discard or reset, the interrupt pin is asserted iff
\* uart.intr_state() holds; set_autodiscard changes neither the register
\* file nor the pin.
C20_PinFollowsIntrState ==
    [][/\ uart_lock' = "free" =>
            (uart_state'.irq_pin <=> intr_state(uart_state'.uart))
       /\ ulast'.op \in {"Source::set_autodiscard(true)",
                         "Source::set_autodiscard(false)"}
            => /\ uart_state'.uart = uart_state.uart
               /\ uart_state'.irq_pin = uart_state.irq_pin]_vars

\* the host took the last transmitted byte and the pin went up on release
C20_Witness ==
    /\ ulast.op = "Source::read"
    /\ ulast.ctx = "host"
    /\ uart_lock = "free"
    /\ uart_state.irq_pin
    /\ intr_state(uart_state.uart)

----------------------------------------------------------------------------
(* Bit-field registers (src/lib/propolis/src/hw/usb/xhci/bits.rs)           *)
(*                                                                          *)
(* A register value is a u32 kept as two 16-bit halves.  A field is a bit   *)
(* range [lo, hi) of it; the accessors the bitstruct! macro generates for a *)
(* field are the shift-and-mask pair: get is (raw >> lo) & mask, with is    *)
(* (raw & !(mask << lo)) | ((value & mask) << lo).                          *)

BitOr(a, b) ==
    a + b - BitAnd(a, b)

And32(a, b) ==
    [hi |-> BitAnd(a.hi, b.hi), lo |-> BitAnd(a.lo, b.lo)]

Or32(a, b) ==
    [hi |-> BitOr(a.hi, b.hi), lo |-> BitOr(a.lo, b.lo)]

Not32(a) ==
    [hi |-> 65535 - a.hi, lo |-> 65535 - a.lo]

\* a << n on a u32, 0 <= n < 32
Shl32(a, n) ==
    IF n < 16
    THEN [hi |-> ((a.hi * Pow2(n)) % 65536) + (a.lo \div Pow2(16 - n)),
          lo |-> (a.lo * Pow2(n)) % 65536]
    ELSE [hi |-> (a.lo * Pow2(n - 16)) % 65536, lo |-> 0]

\* a >> n on a u32, 0 <= n < 32
Shr32(a, n) ==
    IF n < 16
    THEN [hi |-> a.hi \div Pow2(n),
          lo |-> (a.lo \div Pow2(n)) + (a.hi % Pow2(n)) * Pow2(16 - n)]
    ELSE [hi |-> 0, lo |-> a.hi \div Pow2(n - 16)]

\* the u32 with its k low bits set, 0 <= k <= 32
mask(k) ==
    IF k <= 16
    THEN [hi |-> 0, lo |-> Pow2(k) - 1]
    ELSE [hi |-> Pow2(k - 16) - 1, lo |-> 65535]

\* the fields of HcStructuralParameters1: name, bit range, width of the
\* field's type
HcStructuralParameters1 ==
    {[name |-> "max_slots", lo |-> 0, hi |-> 8, ty |-> 8],
     [name |-> "max_intrs", lo |-> 8, hi |-> 19, ty |-> 16],
     [name |-> "reserved", lo |-> 19, hi |-> 24, ty |-> 8],
     [name |-> "max_ports", lo |-> 24, hi |-> 32, ty |-> 8]}

\* the fields of HcStructuralParameters2
HcStructuralParameters2 ==
    {[name |-> "iso_sched_threshold", lo |-> 0, hi |-> 3, ty |-> 8],
     [name |-> "ist_as_frame", lo |-> 3, hi |-> 4, ty |-> 1],
     [name |-> "erst_max", lo |-> 4, hi |-> 8, ty |-> 8],
     [name |-> "reserved", lo |-> 8, hi |-> 21, ty |-> 16],
     [name |-> "max_scratchpad_bufs_hi", lo |-> 21, hi |-> 26, ty |-> 8],
     [name |-> "scratchpad_restore", lo |-> 26, hi |-> 27, ty |-> 1],
     [name |-> "max_scratchpad_bufs_lo", lo |-> 27, hi |-> 32, ty |-> 8]}

\* the fields of HcCapabilityParameters1 that the controller sets
HcCapabilityParameters1 ==
    {[name |-> "ac64", lo |-> 0, hi |-> 1, ty |-> 1],
     [name |-> "xecp", lo |-> 16, hi |-> 32, ty |-> 16]}

\* the fields of FrameLengthAdjustment (a u8: the upper bits stay 0)
FrameLengthAdjustment ==
    {[name |-> "fladj", lo |-> 0, hi |-> 6, ty |-> 8],
     [name |-> "nfc", lo |-> 6, hi |-> 7, ty |-> 1],
     [name |-> "reserved", lo |-> 7, hi |-> 8, ty |-> 8]}

\* the field called `name` of a register
Field(struct, name) ==
    CHOOSE f \in struct : f.name = name

\* the generated getter: the field's bits, shifted down
field_get(raw, f) ==
    And32(Shr32(raw, f.lo), mask(f.hi - f.lo)).lo

\* the generated with_ without the mask on the value
field_with_unmasked(raw, f, v) ==
    Or32(And32(raw, Not32(Shl32(mask(f.hi - f.lo), f.lo))),
         Shl32([hi |-> 0, lo |-> v], f.lo))

\* the generated with_: the field's bits replaced by the value's low bits
field_with(raw, f, v) ==
    Or32(And32(raw, Not32(Shl32(mask(f.hi - f.lo), f.lo))),
         Shl32(And32([hi |-> 0, lo |-> v], mask(f.hi - f.lo)), f.lo))

\* HcStructuralParameters2::max_scratchpad_bufs
max_scratchpad_bufs(raw) ==
    LET lo == BitOr(field_get(raw, Field(HcStructuralParameters2, "max_scratchpad_bufs_lo")), 31)
        hi == BitOr(field_get(raw, Field(HcStructuralParameters2, "max_scratchpad_bufs_hi")), 31)
    IN  BitOr((hi * 32) % 65536, lo)

\* HcStructuralParameters2::with_max_scratchpad_bufs
with_max_scratchpad_bufs(raw, max) ==
    LET lo == BitAnd(max, 31)
        hi == BitAnd(max \div 32, 31)
    IN  field_with(
            field_with(raw, Field(HcStructuralParameters2, "max_scratchpad_bufs_lo"), lo % 256),
            Field(HcStructuralParameters2, "max_scratchpad_bufs_hi"), hi % 256)

\* register values the accessors are applied to
RawInputs ==
    {[hi |-> 0, lo |-> 0], [hi |-> 65535, lo |-> 65535],
     [hi |-> 2052, lo |-> 64], [hi |-> 42405, lo |-> 23130],
     [hi |-> 23130, lo |-> 42405]}

\* values handed to with_<field>: in range, at the edge, and too wide for
\* the field where its type allows
FieldValues(f) ==
    {v \in {0, 1, 5, 64, 255, 256, 1024, 2047, 2048, 2049, 65535} :
        v < Pow2(f.ty)}

\* the largest value of the composed scratchpad accessor: 10 bits
MaxScratchpadBufs ==
    Pow2(10) - 1

NoBits ==
    [op |-> "none", field |-> "", raw |-> [hi |-> 0, lo |-> 0], v |-> 0,
     out |-> [hi |-> 0, lo |-> 0], got |-> 0]

\* an input for a field of HcStructuralParameters1, or for the composed
\* scratchpad accessor of HcStructuralParameters2
BitsInputs ==
    UNION {{[NoBits EXCEPT !.op = "input", !.field = f.name, !.raw = raw, !.v = v] :
                raw \in RawInputs, v \in FieldValues(f)} : f \in HcStructuralParameters1}
    \cup
    {[NoBits EXCEPT !.op = "input", !.field = "max_scratchpad_bufs", !.raw = raw, !.v = v] :
        raw \in RawInputs, v \in 0 .. MaxScratchpadBufs}

InitBits ==
    bits = NoBits

InitBitsInputs ==
    bits \in BitsInputs

\* x.with_<field>(v), then .<field>()
ApplyField ==
    /\ bits.op = "input"
    /\ bits.field # "max_scratchpad_bufs"
    /\ \E out \in {field_with(bits.raw, Field(HcStructuralParameters1, bits.field), bits.v)} :
        bits' = [bits EXCEPT !.op = "with_get", !.out = out,
                     !.got = field_get(out, Field(HcStructuralParameters1, bits.field))]
    /\ UNCHANGED notBits

\* x.with_max_scratchpad_bufs(v), then .max_scratchpad_bufs()
ApplyScratchpadBufs ==
    /\ bits.op = "input"
    /\ bits.field = "max_scratchpad_bufs"
    /\ \E out \in {with_max_scratchpad_bufs(bits.raw, bits.v)} :
        bits' = [bits EXCEPT !.op = "with_get", !.out = out,
                     !.got = max_scratchpad_bufs(out)]
    /\ UNCHANGED notBits

NextBits ==
    \/ ApplyField
    \/ ApplyScratchpadBufs

\* bit i of a u32
Bit32(a, i) ==
    IF i < 16 THEN (a.lo \div Pow2(i)) % 2 ELSE (a.hi \div Pow2(i - 16)) % 2

\* C15: for a field [lo, hi) of width k, with(name, v) sets the field's bits
\* to the k low bits of v and leaves every bit outside the field as it was,
\* and get(name) afterwards returns v & mask(k): a value too wide for the
\* field is truncated.
C15_WithThenGet ==
    bits.op = "with_get" /\ bits.field # "max_scratchpad_bufs" =>
        LET f == Field(HcStructuralParameters1, bits.field)
        IN  /\ \A i \in 0 .. 31 :
                Bit32(bits.out, i) =
                    IF f.lo <= i /\ i < f.hi
                    THEN (bits.v \div Pow2(i - f.lo)) % 2
                    ELSE Bit32(bits.raw, i)
            /\ bits.got = bits.v % Pow2(f.hi - f.lo)

\* with_max_intrs was given 2048, one bit wider than the 11-bit field, on a
\* register whose other bits are all set
C15_Witness ==
    /\ bits.op = "with_get"
    /\ bits.field = "max_intrs"
    /\ bits.v = 2048
    /\ bits.got = 0
    /\ bits.raw = [hi |-> 65535, lo |-> 65535]
    /\ bits.out = [hi |-> 65528, lo |-> 255]

\* C16: the composed 10-bit scratchpad accessor round-trips: for every v in
\* 0 .. 1023, with_max_scratchpad_bufs(v).max_scratchpad_bufs() = v, and no
\* bit outside bits 21..26 and 27..32 of HCSPARAMS2 changes.
C16_ScratchpadRoundTrip ==
    bits.op = "with_get" /\ bits.field = "max_scratchpad_bufs" =>
        /\ bits.got = bits.v
        /\ \A i \in (0 .. 20) \cup {26} : Bit32(bits.out, i) = Bit32(bits.raw, i)

----------------------------------------------------------------------------
(* The xHCI controller (src/lib/propolis/src/hw/usb/xhci)                   *)
(*                                                                          *)
(* The register maps are packed layouts: a sequence of (id, length) whose   *)
(* entries follow each other from offset 0.  RegMap::process cuts an access *)
(* into one sub-access per register it touches and hands each to the        *)
(* device's handler; the handlers fill a ReadOp, or take a WriteOp.         *)

NUM_USB2_PORTS ==
    4

NUM_USB3_PORTS ==
    4

MAX_DEVICE_SLOTS ==
    64

NUM_INTRS ==
    1024

USB_PCI_CFG_REG_SZ ==
    3

USB_PCI_CFG_OFFSET ==
    96

XHC_CAP_BASE_REG_SZ ==
    32

\* register identifiers: UsbPciCfgReg and Registers
Cfg(r) ==
    [kind |-> "Cfg", reg |-> r, port |-> 0]

Reserved ==
    [kind |-> "Reserved", reg |-> "", port |-> 0]

Cap(r) ==
    [kind |-> "Cap", reg |-> r, port |-> 0]

Op(r) ==
    [kind |-> "Op", reg |-> r, port |-> 0]

\* Op(Port(i, r))
OpPort(i, r) ==
    [kind |-> "Op", reg |-> r, port |-> i]

Entry(id, len) ==
    [id |-> id, len |-> len]

\* the layout of USB_PCI_CFG_REGS
USB_PCI_CFG_layout ==
    <<Entry(Cfg("SerialBusReleaseNumber"), 1),
      Entry(Cfg("FrameLengthAdjustment"), 1),
      Entry(Cfg("DefaultBestEffortServiceLatencies"), 1)>>

\* the capability registers of XHC_REGS
cap_layout ==
    <<Entry(Cap("CapabilityLength"), 1),
      Entry(Reserved, 1),
      Entry(Cap("HciVersion"), 2),
      Entry(Cap("HcStructuralParameters1"), 4),
      Entry(Cap("HcStructuralParameters2"), 4),
      Entry(Cap("HcStructuralParameters3"), 4),
      Entry(Cap("HcCapabilityParameters1"), 4),
      Entry(Cap("DoorbellOffset"), 4),
      Entry(Cap("RuntimeRegisterSpaceOffset"), 4),
      Entry(Cap("HcCapabilityParameters2"), 4)>>

\* the four registers of port i
port_layout(i) ==
    <<Entry(OpPort(i, "Port.PortStatusControl"), 4),
      Entry(OpPort(i, "Port.PortPowerManagementStatusControl"), 4),
      Entry(OpPort(i, "Port.PortLinkInfo"), 4),
      Entry(OpPort(i, "Port.PortHardwareLpmControl"), 4)>>

\* (from..num_ports).flat_map(port registers)
RECURSIVE ports_layout(_, _)
ports_layout(from, num_ports) ==
    IF from >= num_ports
    THEN <<>>
    ELSE port_layout(from) \o ports_layout(from + 1, num_ports)

\* the operational registers of XHC_REGS, the port registers chained on
op_layout ==
    <<Entry(Op("UsbCommand"), 4),
      Entry(Op("UsbStatus"), 4),
      Entry(Op("PageSize"), 4),
      Entry(Reserved, 8),
      Entry(Op("DeviceNotificationControl"), 4),
      Entry(Op("CommandRingControlRegister"), 8),
      Entry(Reserved, 16),
      Entry(Op("DeviceContextBaseAddressArrayPointerRegister"), 8),
      Entry(Op("Configure"), 4),
      Entry(Reserved, 964)>>
        \o ports_layout(0, NUM_USB2_PORTS + NUM_USB3_PORTS)

\* cap_layout.chain(op_layout)
XHC_layout ==
    cap_layout \o op_layout

\* the sum of the first n lengths of a layout
RECURSIVE layout_sum(_, _)
layout_sum(layout, n) ==
    IF n = 0 THEN 0 ELSE layout_sum(layout, n - 1) + layout[n].len

\* cap_len and op_len as XHC_REGS stashes them
cap_len ==
    layout_sum(cap_layout, Len(cap_layout))

op_len ==
    layout_sum(op_layout, Len(op_layout))

\* RegMap::create_packed: the entries at their accumulated offsets, under
\* the size declared to the constructor
create_packed(size, layout) ==
    [size |-> size,
     regs |-> [i \in 1 .. Len(layout) |->
                  [idx |-> i, id |-> layout[i].id,
                   start |-> layout_sum(layout, i - 1), len |-> layout[i].len]]]

\* the two maps as the lazy statics build them
USB_PCI_CFG_REGS ==
    create_packed(USB_PCI_CFG_REG_SZ, USB_PCI_CFG_layout)

XHC_REGS ==
    create_packed(XHC_CAP_BASE_REG_SZ, XHC_layout)

\* the layout of XHC_REGS over the length its entries add up to
XHC_REGS_packed ==
    create_packed(cap_len + op_len, XHC_layout)

Max(a, b) ==
    IF a > b THEN a ELSE b

Min(a, b) ==
    IF a < b THEN a ELSE b

\* RegMap::process that hands every register the access as it came
process_unsplit(map, off, len) ==
    LET Touched(r) == r.start < off + len /\ off < r.start + r.len
        sel == SelectSeq(map.regs, Touched)
    IN  IF off + len > map.size
        THEN [result |-> "panic", subs |-> <<>>]
        ELSE [result |-> "ok",
              subs |-> [i \in 1 .. Len(sel) |->
                          [idx |-> sel[i].idx, id |-> sel[i].id,
                           offset |-> off, len |-> len]]]

\* RegMap::process: one sub-access per register the access touches, in
\* address order, its offset relative to the register and its length cut
\* to the register
process(map, off, len) ==
    LET Touched(r) == r.start < off + len /\ off < r.start + r.len
        sel == SelectSeq(map.regs, Touched)
    IN  IF off + len > map.size
        THEN [result |-> "panic", subs |-> <<>>]
        ELSE [result |-> "ok",
              subs |-> [i \in 1 .. Len(sel) |->
                          [idx |-> sel[i].idx, id |-> sel[i].id,
                           offset |-> Max(off, sel[i].start) - sel[i].start,
                           len |-> Min(off + len, sel[i].start + sel[i].len)
                                       - Max(off, sel[i].start)]]]

\* ReadOp: `len` bytes to produce, those produced so far, and whether a
\* write ran over the end
ReadOp(offset, len) ==
    [offset |-> offset, len |-> len, buf |-> <<>>, panic |-> FALSE]

\* ReadOp::write_bytes
write_bytes(ro, bytes) ==
    IF Len(ro.buf) + Len(bytes) > ro.len
    THEN [ro EXCEPT !.panic = TRUE]
    ELSE [ro EXCEPT !.buf = @ \o bytes]

write_u8(ro, v) ==
    write_bytes(ro, <<v % 256>>)

write_u16(ro, v) ==
    write_bytes(ro, <<v % 256, (v \div 256) % 256>>)

write_u32(ro, a) ==
    write_bytes(ro, to_le_bytes(a))

\* ReadOp::fill: the rest of the buffer
fill(ro, byte) ==
    [ro EXCEPT !.buf = @ \o [i \in 1 .. (ro.len - Len(@)) |-> byte]]

\* PciXhci::create: XhciState { usb_cmd: UsbCommand(0) }
XhciState_new ==
    [usb_cmd |-> U32(0, 0)]

\* PciXhci::usb_cfg_read
usb_cfg_read(id, ro) ==
    IF id.reg = "SerialBusReleaseNumber"
    THEN write_u8(ro, 48)
    ELSE IF id.reg = "FrameLengthAdjustment"
         THEN write_u8(ro, field_with(U32(0, 0), Field(FrameLengthAdjustment, "nfc"), 1).lo)
         ELSE write_u8(ro, 0)

\* PciXhci::usb_cfg_write: all three registers ignore the write
usb_cfg_write(id, st) ==
    [result |-> "ok", site |-> "", state |-> st]

\* PciXhci::reg_read
reg_read(id, ro, st) ==
    IF id.kind = "Reserved" THEN fill(ro, 0)
    ELSE IF id.kind = "Cap" THEN
        IF id.reg = "CapabilityLength" THEN write_u8(ro, 0)
        ELSE IF id.reg = "HciVersion" THEN write_u16(ro, 288)
        ELSE IF id.reg = "HcStructuralParameters1" THEN
            write_u32(ro,
                field_with(
                    field_with(
                        field_with(U32(0, 0),
                            Field(HcStructuralParameters1, "max_slots"), MAX_DEVICE_SLOTS),
                        Field(HcStructuralParameters1, "max_intrs"), NUM_INTRS),
                    Field(HcStructuralParameters1, "max_ports"),
                    (NUM_USB2_PORTS + NUM_USB3_PORTS) % 256))
        ELSE IF id.reg = "HcStructuralParameters2" THEN
            write_u32(ro,
                field_with(
                    field_with(U32(0, 0),
                        Field(HcStructuralParameters2, "ist_as_frame"), 1),
                    Field(HcStructuralParameters2, "iso_sched_threshold"), 7))
        ELSE IF id.reg = "HcCapabilityParameters1" THEN
            write_u32(ro,
                field_with(
                    field_with(U32(0, 0), Field(HcCapabilityParameters1, "ac64"), 1),
                    Field(HcCapabilityParameters1, "xecp"), 0))
        ELSE write_u32(ro, U32(0, 0))
    ELSE IF id.reg = "UsbCommand" THEN write_u32(ro, st.usb_cmd)
    ELSE ro

\* PciXhci::reg_write with the capability registers taken for operational
reg_write_cap_todo(id, st) ==
    IF id.kind = "Reserved"
    THEN [result |-> "ok", site |-> "", state |-> st]
    ELSE [result |-> "panic", site |-> "todo!", state |-> st]

\* PciXhci::reg_write
reg_write(id, st) ==
    IF id.kind \in {"Reserved", "Cap"}
    THEN [result |-> "ok", site |-> "", state |-> st]
    ELSE [result |-> "panic", site |-> "todo!", state |-> st]

\* cfg_rw: the handler runs on each sub-access in turn; the bytes read are
\* the sub-accesses' bytes one after the other
RECURSIVE cfg_dispatch(_, _, _, _)
cfg_dispatch(dir, subs, i, st) ==
    IF i > Len(subs)
    THEN [result |-> "ok", site |-> "", buf |-> <<>>, state |-> st]
    ELSE IF dir = "Read"
         THEN LET ro == usb_cfg_read(subs[i].id, ReadOp(subs[i].offset, subs[i].len))
                  rest == cfg_dispatch(dir, subs, i + 1, st)
              IN  IF ro.panic
                  THEN [result |-> "panic", site |-> "ReadOp", buf |-> <<>>, state |-> st]
                  ELSE [rest EXCEPT !.buf = ro.buf \o @]
         ELSE LET w == usb_cfg_write(subs[i].id, st)
              IN  IF w.result = "panic"
                  THEN [result |-> "panic", site |-> w.site, buf |-> <<>>, state |-> w.state]
                  ELSE cfg_dispatch(dir, subs, i + 1, w.state)

\* <PciXhci as pci::Device>::cfg_rw
cfg_rw(region, dir, off, len, st) ==
    IF region # USB_PCI_CFG_OFFSET
    THEN [result |-> "panic", site |-> "assert_eq!(region)", buf |-> <<>>,
          state |-> st, subs |-> <<>>]
    ELSE LET p == process(USB_PCI_CFG_REGS, off, len)
         IN  IF p.result = "panic"
             THEN [result |-> "panic", site |-> "RegMap::process", buf |-> <<>>,
                   state |-> st, subs |-> <<>>]
             ELSE LET d == cfg_dispatch(dir, p.subs, 1, st)
                  IN  [result |-> d.result, site |-> d.site, buf |-> d.buf,
                       state |-> d.state, subs |-> p.subs]

\* accesses to the MMIO registers: over the capability block and the first
\* operational registers, and around both ends of the long reserved run
\* and of the port registers
XhcAccesses ==
    {a \in ((0 .. 47) \cup (88 .. 95) \cup (1052 .. 1063) \cup (1176 .. 1183))
            \X {1, 2, 4, 8} :
        a[1] + a[2] <= cap_len + op_len}

\* accesses to the USB configuration registers, inside the region
CfgAccesses ==
    {a \in (0 .. USB_PCI_CFG_REG_SZ - 1) \X (1 .. USB_PCI_CFG_REG_SZ) :
        a[1] + a[2] <= USB_PCI_CFG_REG_SZ}

NoXhciCall ==
    [op |-> "none", dir |-> "", map |-> "", id |-> Reserved, off |-> 0, len |-> 0,
     result |-> "ok", site |-> "", subs |-> <<>>, buf |-> <<>>]

\* PciXhci::create
InitXhci ==
    /\ xhci_state = XhciState_new
    /\ xlast = NoXhciCall

\* cfg_rw(USB_PCI_CFG_OFFSET, rwo)
CfgRw ==
    /\ \E dir \in {"Read", "Write"}, a \in CfgAccesses :
        \E r \in {cfg_rw(USB_PCI_CFG_OFFSET, dir, a[1], a[2], xhci_state)} :
            /\ xhci_state' = r.state
            /\ xlast' = [NoXhciCall EXCEPT !.op = "cfg_rw", !.dir = dir, !.map = "cfg",
                             !.off = a[1], !.len = a[2], !.result = r.result,
                             !.site = r.site, !.subs = r.subs, !.buf = r.buf]
    /\ UNCHANGED notXhci

\* bar_rw: XHC_REGS.map.process cuts the access into sub-accesses
BarProcess ==
    /\ \E dir \in {"Read", "Write"}, a \in XhcAccesses :
        \E r \in {process(XHC_REGS_packed, a[1], a[2])} :
            xlast' = [NoXhciCall EXCEPT !.op = "process", !.dir = dir, !.map = "xhc",
                          !.off = a[1], !.len = a[2], !.result = r.result,
                          !.subs = r.subs]
    /\ UNCHANGED <<xhci_state, notXhci>>

\* bar_rw: the closure is handed a read of one whole register
RegRead ==
    /\ \E i \in 1 .. Len(XHC_layout) :
        \E ro \in {reg_read(XHC_layout[i].id, ReadOp(0, XHC_layout[i].len), xhci_state)} :
            xlast' = [NoXhciCall EXCEPT !.op = "reg_read", !.dir = "Read",
                          !.id = XHC_layout[i].id, !.len = XHC_layout[i].len,
                          !.result = IF ro.panic THEN "panic" ELSE "ok",
                          !.site = IF ro.panic THEN "ReadOp" ELSE "",
                          !.buf = ro.buf]
    /\ UNCHANGED <<xhci_state, notXhci>>

\* bar_rw: the closure is handed a write of one whole register
RegWrite ==
    /\ \E i \in 1 .. Len(XHC_layout) :
        \E r \in {reg_write(XHC_layout[i].id, xhci_state)} :
            /\ xhci_state' = r.state
            /\ xlast' = [NoXhciCall EXCEPT !.op = "reg_write", !.dir = "Write",
                             !.id = XHC_layout[i].id, !.len = XHC_layout[i].len,
                             !.result = r.result, !.site = r.site]
    /\ UNCHANGED notXhci

NextXhci ==
    \/ CfgRw
    \/ BarProcess
    \/ RegRead
    \/ RegWrite

\* the map an access went through, as the lazy static declares it
MapOf(name) ==
    IF name = "cfg" THEN USB_PCI_CFG_REGS ELSE XHC_REGS

\* a map covers its declared space exactly: no empty entry, the lengths add
\* up to the declared size, every offset below it lies in exactly one entry
Covers(m) ==
    /\ \A i \in 1 .. Len(m.regs) : m.regs[i].len >= 1
    /\ m.regs[Len(m.regs)].start + m.regs[Len(m.regs)].len = m.size
    /\ \A o \in 0 .. m.size - 1 :
        Cardinality({i \in 1 .. Len(m.regs) :
            m.regs[i].start <= o /\ o < m.regs[i].start + m.regs[i].len}) = 1

\* C12: process hands the handler one sub-access per register the access
\* overlaps, once each and in ascending address order, with the offset
\* relative to that register and the length cut to it: the sub-accesses tile
\* [off, off + len) from the first register's part to the last one's.
C12_ProcessSplitsPerRegister ==
    xlast.op \in {"process", "cfg_rw"} /\ xlast.result = "ok" =>
        LET s == xlast.subs
            n == Len(xlast.subs)
            regs == IF xlast.map = "cfg" THEN USB_PCI_CFG_REGS.regs
                    ELSE XHC_REGS_packed.regs
        IN  /\ n >= 1
            /\ \A i \in 1 .. n :
                /\ s[i].id = regs[s[i].idx].id
                /\ s[i].len >= 1
                /\ s[i].offset + s[i].len <= regs[s[i].idx].len
            /\ regs[s[1].idx].start + s[1].offset = xlast.off
            /\ \A i \in 1 .. n - 1 :
                /\ s[i + 1].idx = s[i].idx + 1
                /\ s[i].offset + s[i].len = regs[s[i].idx].len
                /\ s[i + 1].offset = 0
            /\ regs[s[n].idx].start + s[n].offset + s[n].len = xlast.off + xlast.len

\* an 8-byte read that starts 2 bytes into the first of three adjacent
\* 4-byte registers: (2, 2), (0, 4), (0, 2)
C12_Witness ==
    /\ xlast.op = "process"
    /\ xlast.dir = "Read"
    /\ xlast.off = 6
    /\ xlast.len = 8
    /\ xlast.subs =
        <<[idx |-> 4, id |-> Cap("HcStructuralParameters1"), offset |-> 2, len |-> 2],
          [idx |-> 5, id |-> Cap("HcStructuralParameters2"), offset |-> 0, len |-> 4],
          [idx |-> 6, id |-> Cap("HcStructuralParameters3"), offset |-> 0, len |-> 2]>>

\* C13: a read of a whole register, handed to reg_read, has every byte of
\* its buffer written or filled when the handler returns, whichever
\* register of the MMIO layout it is.
C13_ReadFullyPopulated ==
    xlast.op = "reg_read" =>
        /\ xlast.result = "ok"
        /\ Len(xlast.buf) = xlast.len

\* C14: USB_PCI_CFG_REGS and XHC_REGS each cover their declared address
\* space exactly: every entry is at least one byte long, the lengths add up
\* to the size given to the constructor, and every offset below that size
\* lies in exactly one entry.
C14_MapsCoverDeclaredSpace ==
    xlast.map # "" => Covers(MapOf(xlast.map))

\* what a read of the whole register returns
ReadBack(c, st) ==
    IF c.op = "cfg_rw"
    THEN cfg_rw(USB_PCI_CFG_OFFSET, "Read", c.off, c.len, st).buf
    ELSE reg_read(c.id, ReadOp(0, c.len), st).buf

----------------------------------------------------------------------------
(* Several vCPUs on the PCI bus (src/src/pci.rs)                            *)
(*                                                                          *)
(* Each vCPU thread calls pio_in or pio_out and goes through it statement   *)
(* by statement: the lock, the body, the release when the guard goes out of *)
(* scope.  The store to pio_cfg_addr is taken as two stores of 16 bits, so  *)
(* that it is the lock, and nothing else, that keeps a reader from seeing   *)
(* half of it.                                                              *)

\* number of vCPU threads
NCpus ==
    2

\* the calls a vCPU makes: 4-byte writes to CONFIG_ADDRESS, a write to
\* CONFIG_DATA, reads of either port, and a 1-byte read of CONFIG_ADDRESS
SmpCalls ==
    [op : {"pio_out"}, port : {PORT_PCI_CONFIG_ADDR},
     data : {<<0, 8, 0, 128>>, <<52, 18, 0, 128>>}]
    \cup [op : {"pio_out"}, port : {PORT_PCI_CONFIG_DATA}, data : {<<255, 255, 255, 255>>}]
    \cup [op : {"pio_in"}, port : Ports, data : {<<0, 0, 0, 0>>}]
    \cup [op : {"pio_in"}, port : {PORT_PCI_CONFIG_ADDR}, data : {<<0>>}]

NoSmpCall ==
    [op |-> "none", port |-> 0, data |-> <<>>]

CpuIdle ==
    [pc |-> "idle", call |-> NoSmpCall]

InitSmp ==
    /\ cpus = [c \in 1 .. NCpus |-> CpuIdle]
    /\ bus_lock = 0

\* Mutex::lock that lets a thread in whoever holds the mutex
can_lock_always(holder) ==
    TRUE

\* Mutex::lock: a thread gets the mutex when nobody holds it
can_lock(holder) ==
    holder = 0

\* what the history records of a step that is not the body of a read
SmpStep(c, name) ==
    [NoCall EXCEPT !.op = name, !.port = cpus[c].call.port, !.fwd = c]

\* the vCPU enters pio_in or pio_out, at offset 0: both go on to the lock
SmpCall(c) ==
    /\ cpus[c].pc = "idle"
    /\ \E call \in SmpCalls :
        cpus' = [cpus EXCEPT ![c] = [pc |-> "lock", call |-> call]]
    /\ last' = SmpStep(c, "call")
    /\ UNCHANGED <<pio_cfg_addr, devices, poisoned, written, bus_lock, notBus>>

\* self.state.lock().unwrap()
SmpLock(c) ==
    /\ cpus[c].pc = "lock"
    /\ can_lock(bus_lock)
    /\ IF poisoned
       THEN /\ cpus' = [cpus EXCEPT ![c] = CpuIdle]
            /\ last' = [SmpStep(c, cpus[c].call.op) EXCEPT !.result = "panic", !.site = "lock"]
            /\ UNCHANGED <<bus_lock, written>>
       ELSE /\ cpus' = [cpus EXCEPT ![c].pc = "body"]
            /\ bus_lock' = c
            /\ written' = IF cpus[c].call.op = "pio_out"
                             /\ cpus[c].call.port = PORT_PCI_CONFIG_ADDR
                          THEN from_le_bytes(cpus[c].call.data)
                          ELSE written
            /\ last' = SmpStep(c, "lock")
    /\ UNCHANGED <<pio_cfg_addr, devices, poisoned, notBus>>

\* pio_out: hdl.pio_cfg_addr = ..., the low half
SmpStoreLo(c) ==
    /\ cpus[c].pc = "body"
    /\ cpus[c].call.op = "pio_out"
    /\ pio_cfg_addr' = [pio_cfg_addr EXCEPT
                            !.lo = pio_out(cpus[c].call.port, 0, cpus[c].call.data).addr.lo]
    /\ cpus' = [cpus EXCEPT ![c].pc = "body2"]
    /\ last' = SmpStep(c, "store")
    /\ UNCHANGED <<devices, poisoned, written, bus_lock, notBus>>

\* pio_out: hdl.pio_cfg_addr = ..., the high half
SmpStoreHi(c) ==
    /\ cpus[c].pc = "body2"
    /\ cpus[c].call.op = "pio_out"
    /\ pio_cfg_addr' = [pio_cfg_addr EXCEPT
                            !.hi = pio_out(cpus[c].call.port, 0, cpus[c].call.data).addr.hi]
    /\ cpus' = [cpus EXCEPT ![c].pc = "unlock"]
    /\ last' = SmpStep(c, "store")
    /\ UNCHANGED <<devices, poisoned, written, bus_lock, notBus>>

\* pio_in: the match on the port; a panic unwinds through the guard, which
\* poisons the mutex and releases it
SmpLoad(c) ==
    /\ cpus[c].pc = "body"
    /\ cpus[c].call.op = "pio_in"
    /\ \E r \in {pio_in(cpus[c].call.port, 0, cpus[c].call.data)} :
        /\ last' = [NoCall EXCEPT !.op = "pio_in", !.port = cpus[c].call.port,
                        !.len = Len(cpus[c].call.data), !.out = r.data,
                        !.result = r.result, !.site = r.site,
                        !.parsed = r.parsed, !.fwd = c]
        /\ IF r.result = "panic"
           THEN /\ poisoned' = TRUE
                /\ bus_lock' = 0
                /\ cpus' = [cpus EXCEPT ![c] = CpuIdle]
           ELSE /\ cpus' = [cpus EXCEPT ![c].pc = "unlock"]
                /\ UNCHANGED <<poisoned, bus_lock>>
    /\ UNCHANGED <<pio_cfg_addr, devices, written, notBus>>

\* the guard goes out of scope
SmpUnlock(c) ==
    /\ cpus[c].pc = "unlock"
    /\ bus_lock' = 0
    /\ cpus' = [cpus EXCEPT ![c] = CpuIdle]
    /\ last' = SmpStep(c, "unlock")
    /\ UNCHANGED <<pio_cfg_addr, devices, poisoned, written, notBus>>

NextSmp ==
    \E c \in 1 .. NCpus :
        \/ SmpCall(c)
        \/ SmpLock(c)
        \/ SmpStoreLo(c)
        \/ SmpStoreHi(c)
        \/ SmpLoad(c)
        \/ SmpUnlock(c)

\* C18: with several vCPUs, every pio_in and pio_out acts as one step under
\* the bus lock.  A read of CONFIG_ADDRESS returns the value of one whole
\* 4-byte write (or the initial 0), the one whose writer took the lock last
\* before the reader, never a mixture of two; a read of CONFIG_DATA decodes
\* that same value.
C18_PortAccessAtomic ==
    /\ last.op = "pio_in" /\ last.result = "ok" /\ last.port = PORT_PCI_CONFIG_ADDR
        => last.out = to_le_bytes(written)
    /\ last.op = "pio_in" /\ last.result = "ok" /\ last.port = PORT_PCI_CONFIG_DATA
        => /\ last.parsed.some = AddrEnabled(written)
           /\ last.parsed.some =>
                /\ last.parsed.bdf.bus = AddrBus(written)
                /\ last.parsed.bdf.func = AddrFunction(written)
                /\ last.parsed.off = AddrOffset(written)
    /\ \A c \in 1 .. NCpus :
        cpus[c].pc \in {"body", "body2", "unlock"} => bus_lock = c

\* one vCPU read CONFIG_ADDRESS while the other was waiting for the lock
\* with a different value to write
C18_Witness ==
    /\ last.op = "pio_in"
    /\ last.port = PORT_PCI_CONFIG_ADDR
    /\ last.result = "ok"
    /\ last.out = <<52, 18, 0, 128>>
    /\ \E c \in 1 .. NCpus :
        /\ cpus[c].pc = "lock"
        /\ cpus[c].call.op = "pio_out"
        /\ cpus[c].call.data = <<0, 8, 0, 128>>

----------------------------------------------------------------------------
(* CONFIG_ADDRESS decoding over the whole range of its fields *)

\* guest data of a 4-byte CONFIG_ADDRESS write, the offset byte clear: bit 31
\* set and every value of bits 15..8 (the 5-bit device field, the 3-bit
\* function); the same with bits 18..16 set, which (addr >> 11) as u8 carries
\* above the device, for functions 0 and 7; and 0x00000000, 0x7fffffff,
\* 0xffffffff
LatchData ==
    {to_le_bytes(U32(32768, 256 * k)) : k \in 0..255}
        \cup {to_le_bytes(U32(32775, 256 * (8 * d + f))) : d \in 0..31, f \in {0, 7}}
        \cup {<<0, 0, 0, 0>>, <<255, 255, 255, 127>>, <<255, 255, 255, 255>>}

\* bus.pio_out(PORT_PCI_CONFIG_ADDR, 0, data), data any of LatchData
\* (`written` follows the writes that return)
PioOutLatch ==
    /\ UNCHANGED notPci
    /\ \E data \in LatchData :
        \E r \in {pio_out(PORT_PCI_CONFIG_ADDR, 0, data)} :
            /\ pio_cfg_addr' = r.addr
            /\ poisoned' = r.poisoned
            /\ written' = IF r.result = "ok" THEN from_le_bytes(data) ELSE written
            /\ last' = [NoCall EXCEPT !.op = "pio_out", !.port = PORT_PCI_CONFIG_ADDR,
                            !.len = Len(data),
                            !.result = r.result, !.site = r.site]
            /\ UNCHANGED devices

NextDecode ==
    \/ PioOutLatch
    \/ PioIn

\* C21: decoding is total.  Whatever 32-bit value is latched, a CONFIG_DATA
\* read that decodes it never fails in PciBDF::new: with bit 31 set it always
\* yields a BDF, whose device is in 0..15 and whose function is in 0..7, so
\* neither construction assertion trips; with bit 31 clear nothing is built.
C21_DecodeTotal ==
    (LastIsRead(PORT_PCI_CONFIG_DATA) /\ last.off = 0 /\ last.site # "lock")
        => /\ last.site # "PciBDF::new"
           /\ last.parsed.some = AddrEnabled(pio_cfg_addr)
           /\ last.parsed.some =>
                /\ last.parsed.bdf.dev \in 0..15
                /\ last.parsed.bdf.func \in 0..7
                /\ ~PciBDF_new(last.parsed.bdf.bus, last.parsed.bdf.dev,
                               last.parsed.bdf.func).panic

\* C21 witness: a CONFIG_DATA read has decoded the latched 0x8007ff00 (device
\* field 31 with bits 16..18 set above it, function 7) and returned.
C21_Witness ==
    /\ LastIsRead(PORT_PCI_CONFIG_DATA)
    /\ last.off = 0
    /\ last.result = "ok"
    /\ pio_cfg_addr = U32(32775, 65280)
    /\ last.parsed.some
    /\ last.parsed.bdf = [bus |-> 7, dev |-> 15, func |-> 7]

----------------------------------------------------------------------------
(* Specifications *)

\* every part of the machine as constructed
InitAll ==
    /\ Init
    /\ InitUart
    /\ InitXhci
    /\ InitBits
    /\ InitSmp

\* the PCI bus, device construction included
Spec ==
    InitAll /\ [][Next]_vars

\* the PCI bus as the guest sees it
SpecGuest ==
    InitAll /\ [][NextGuest]_vars

\* the LPC UART: one vCPU thread in pio_rw, one consumer thread
SpecUart ==
    InitAll /\ [][NextUart]_vars

\* every part of the machine as constructed, and one input of the bit-field
\* accessors
InitAllBits ==
    /\ Init
    /\ InitUart
    /\ InitXhci
    /\ InitBitsInputs
    /\ InitSmp

\* the bit-field accessors, applied to an input drawn at the start
SpecBits ==
    InitAllBits /\ [][NextBits]_vars

\* the xHCI controller: accesses to its configuration registers, and the
\* MMIO path at its two stages, the split and the handlers
SpecXhci ==
    InitAll /\ [][NextXhci]_vars

\* the PCI bus under several vCPU threads
SpecSmp ==
    InitAll /\ [][NextSmp]_vars

\* the PCI bus with the guest latching any value of the decoded fields
SpecDecode ==
    InitAll /\ [][NextDecode]_vars

====
